---- MODULE Spec2Model ----
(***************************************************************************)
(* A model of polling-utils: the Source contract (Socket, Ping on the      *)
(* Linux eventfd backend), PollFuture and the sources built on it          *)
(* (UnblockFn, the channel Receiver), and the TimerWheel.                  *)
(*                                                                         *)
(* The readiness Poller, the blocking thread pool and the unbounded        *)
(* channel are external crates; they are modelled at the places where the  *)
(* repository calls them, by the behaviour of epoll, of blocking::Task and *)
(* of async_channel::Recv.                                                 *)
(***************************************************************************)
EXTENDS Integers, Sequences, FiniteSets, TLC

(* ------------------------------ bounds -------------------------------- *)

\* Largest number of un-drained notifications (or unread socket writes)
\* the model lets accumulate on one handle.  The eventfd counter itself
\* holds 2^64 - 2, which no run reaches.
MaxPending == 3

\* The number of bytes the pipe of the pipe backend holds (the kernel's
\* pipe buffer, scaled down).
PipeCap == 2

\* Largest number of values sent on the channel.
MaxSends == 2

\* Largest number of polls of a wrapped future that the model counts.
MaxPolls == 2

\* The clock of the timer wheel runs from 0 to MaxTime.
MaxTime == 2

\* Largest finite duration handed to the timer constructors.
MaxDur == 1

\* Largest number of un-drained notifications on the Ping of one timer.
MaxFired == 2

\* Largest number of timers created on the wheel.
MaxTimers == 2

\* The largest Instant that can be represented (the platform's time type
\* holds 2^63 - 1 seconds), scaled down; far beyond every deadline the
\* bounds above let a timer reach.
InstantMax == 100

(* --------------------------- value domains ---------------------------- *)

\* Event keys chosen by the caller (Event::readable(key)).
Keys == {0, 1}

\* polling::PollMode
Modes == {"Oneshot", "Level", "Edge", "EdgeOneshot"}

\* Option<T>: None is the empty sequence, Some(x) the sequence of x alone.
None == <<>>
Some(x) == <<x>>
Get(o) == o[1]

\* The result of a Source operation: Ok(()) or Err(io::Error).
Ok == "Ok"
Err == "Err"

VARIABLES
    \* ---- Socket<T> / Ping (eventfd) and the Poller it is registered in
    kind,       \* "ping": the handle is a Ping's eventfd; "socket": a stream
    interest,   \* Socket.interest : Option<Interest {event, mode}>
    pending,    \* eventfd counter / unread bytes of the stream
    reg,        \* the Poller's registration of the handle (None when absent)
    events,     \* the events the last Poller.wait reported (their keys)
    res,        \* the Result of the last Source / Notifier operation
    op,         \* the last operation performed
    \* ---- PollFuture<F>
    fkind,      \* which future is wrapped: "task", "ready", "recv"
    fut,        \* the state of the wrapped future
    polls,      \* how many times the wrapped future has been polled
    pollret,    \* what the last poll of the wrapped future returned
    panicked,   \* the owner thread panicked (a future polled after completion)
    \* ---- channel
    queue,      \* messages in the channel
    sent,       \* every value sent so far, in order
    received,   \* every value Receiver.recv returned in Some, in order
    \* ---- timer wheel
    now,        \* Instant::now()
    timers,     \* TimerWheel.timers : BTreeMap<(Instant, usize), Notifier>
    last_id,    \* TimerWheel.last_id
    tm,         \* the Timer objects created so far
    fired,      \* per Timer: how many times its Notifier was notified
    ret,        \* what the last fire_timers returned, and whom it notified
    fire,       \* the fire_timers call in progress: its position and locals
    \* ---- the other Ping backends
    blocked,    \* pipe: the call that is waiting in read / write, or "none"
    in_port,    \* IOCP: Inner.in_port
    edge_trigger, \* IOCP: Inner.edge_trigger
    port,       \* IOCP: the packets posted to the completion port (keys)
    poller_live, \* IOCP: whether an Arc of the Poller registered is left
    \* ---- observers of the scenarios of the test-suite
    mon

pingVars == <<kind, interest, pending, reg, events, res, op>>
futVars == <<fkind, fut, polls, pollret, panicked>>
chanVars == <<queue, sent, received>>
timerVars == <<now, timers, last_id, tm, fired, ret, fire>>
backendVars == <<blocked, in_port, edge_trigger, port, poller_live>>
vars == <<pingVars, futVars, chanVars, timerVars, backendVars, mon>>

(* ------------------------------ Poller -------------------------------- *)
(* polling::Poller on epoll, for the one handle of the model.  A           *)
(* registration is [key, mode, armed, edge]: armed is cleared when a       *)
(* oneshot registration has reported its event; edge records that the      *)
(* handle became readable since the last report.                           *)

EdgeModes == {"Edge", "EdgeOneshot"}
OneshotModes == {"Oneshot", "EdgeOneshot"}

NewReg(k, m, p) ==
    Some([key |-> k, mode |-> m, armed |-> TRUE,
          edge |-> (m \in EdgeModes /\ p > 0)])

\* Poller::add_with_mode: EEXIST when the handle is already registered.
Poller_add_with_mode(r, k, m, p) ==
    IF r # None THEN [res |-> Err, reg |-> r]
    ELSE [res |-> Ok, reg |-> NewReg(k, m, p)]

\* Poller::modify_with_mode: ENOENT when the handle is not registered.
Poller_modify_with_mode(r, k, m, p) ==
    IF r = None THEN [res |-> Err, reg |-> r]
    ELSE [res |-> Ok, reg |-> NewReg(k, m, p)]

\* Poller::delete: ENOENT when the handle is not registered.
Poller_delete(r) ==
    IF r = None THEN [res |-> Err, reg |-> r]
    ELSE [res |-> Ok, reg |-> None]

\* Whether the registration r reports its event in a wait, the handle
\* holding p unread notifications.
Ready(r, p) ==
    /\ r # None
    /\ Get(r).armed
    /\ p > 0
    /\ (Get(r).mode \in EdgeModes => Get(r).edge)

\* The registration after a wait.
AfterWait(r, p) ==
    IF r = None THEN r
    ELSE IF Ready(r, p)
         THEN [r EXCEPT ![1].armed = Get(r).mode \notin OneshotModes,
                        ![1].edge = FALSE]
         ELSE [r EXCEPT ![1].edge = FALSE]

\* The registration after a write to the handle (a readiness edge).
OnWrite(r) ==
    IF r = None \/ Get(r).mode \notin EdgeModes THEN r
    ELSE [r EXCEPT ![1].edge = TRUE]

\* Poller::wait(events, timeout): the keys of the events it reports.
Poller_wait(r, p) == IF Ready(r, p) THEN <<Get(r).key>> ELSE <<>>

(* ------------------------- eventfd / stream --------------------------- *)

\* A write that leaves the eventfd counter as it was.
EventfdWrite_NoAdd(p) == p

\* write(fd, 1u64): adds one to the eventfd counter.
EventfdWrite(p) == p + 1

\* The read of an eventfd made without SEMAPHORE: takes the whole counter.
EventfdRead_NoSemaphore(p) ==
    IF p = 0 THEN [res |-> Err, pending |-> p]
    ELSE [res |-> Ok, pending |-> 0]

\* read(fd, 8 bytes) of a NONBLOCK | SEMAPHORE eventfd: takes one from the
\* counter, EAGAIN when the counter is 0.
EventfdRead(p) ==
    IF p = 0 THEN [res |-> Err, pending |-> p]
    ELSE [res |-> Ok, pending |-> p - 1]

(* ------------------------ scenario observers -------------------------- *)
(* mon follows the operations performed and remembers how far the run has  *)
(* followed each scenario of the test-suite; it changes no other state.    *)

\* tests/ping.rs oneshot(): register Oneshot on a fresh Ping and Poller
\* ("reg"), one notify ("notified"), the wait that reports it ("reported"),
\* handle_event ("handled"), reregister Oneshot ("rereg"), one notify
\* ("renotified"), the wait that reports it ("rereported").  Waits may be
\* repeated; any other operation ends the scenario ("off").
OneshotStep(ph, o) ==
    CASE ph = "fresh" /\ o.op = "register" /\ o.mode = "Oneshot" /\ o.res = Ok
            -> "reg"
      [] ph = "reg" /\ o.op = "wait" -> "reg"
      [] ph = "reg" /\ o.op = "notify" /\ o.res = Ok -> "notified"
      [] ph = "notified" /\ o.op = "wait" -> "reported"
      [] ph = "reported" /\ o.op = "handle_event" /\ o.res = Ok -> "handled"
      [] ph = "handled" /\ o.op = "wait" -> "handled"
      [] ph = "handled" /\ o.op = "reregister" /\ o.mode = "Oneshot"
            /\ o.res = Ok -> "rereg"
      [] ph = "rereg" /\ o.op = "wait" -> "rereg"
      [] ph = "rereg" /\ o.op = "notify" /\ o.res = Ok -> "renotified"
      [] ph = "renotified" /\ o.op = "wait" -> "rereported"
      [] OTHER -> "off"

\* tests/ping.rs and tests/source.rs, "De-register and go again": the source
\* is registered in the Poller ("live"), has been deregistered ("dereg"),
\* then notified or written to ("signalled"); "dereg0" is a deregister of a
\* source that was not registered.  A register call makes the source
\* registered whatever it returns (EEXIST tells it already was), a
\* reregister call that fails tells it is not (ENOENT).
DeregStep(ph, o) ==
    CASE o.op = "register" -> "live"
      [] o.op = "reregister" -> IF o.res = Ok THEN "live" ELSE "no"
      [] o.op = "deregister" -> IF ph = "live" THEN "dereg"
                                ELSE IF ph = "no" THEN "dereg0" ELSE ph
      [] ph = "dereg" /\ o.op \in {"notify", "write"} /\ o.res = Ok
            -> "signalled"
      [] OTHER -> ph

\* future.rs, PollFutureWithArg::register, "We want to be polled right off
\* the bat": a register that returned Ok ("reg"), then, with nothing else in
\* between, a wait ("waited").
SelfWakeStep(ph, o) ==
    CASE o.op = "register" /\ o.res = Ok -> "reg"
      [] ph = "reg" /\ o.op = "wait" -> "waited"
      [] OTHER -> "no"

\* tests/threadpool.rs unblock_fn(): register Level while the task is
\* blocked ("reg"), the first wait ("w1"), handle_event ("h1"), waits while
\* the task stays blocked ("h1"), the task completes ("done"), the next wait
\* ("w2"), handle_event ("h2"), a wait ("h2w"), result() ("result").
UnblockStep(ph, o) ==
    CASE ph = "fresh" /\ o.op = "register" /\ o.mode = "Level" /\ o.res = Ok
            /\ o.fut = "running" -> "reg"
      [] ph = "reg" /\ o.op = "wait" -> "w1"
      [] ph = "w1" /\ o.op = "handle_event" /\ o.res = Ok -> "h1"
      [] ph = "h1" /\ o.op = "wait" -> "h1"
      [] ph = "h1" /\ o.op = "complete" -> "done"
      [] ph = "done" /\ o.op = "wait" -> "w2"
      [] ph = "w2" /\ o.op = "handle_event" /\ o.res = Ok -> "h2"
      [] ph = "h2" /\ o.op = "wait" -> "h2w"
      [] ph \in {"h2", "h2w"} /\ o.op = "poll" -> "result"
      [] OTHER -> "off"

\* The owner's loop over a Receiver registered Level: wait; for the event
\* reported, handle_event ("handled") and then recv (back to "idle").  Sends
\* happen at any time.  Any other operation of the owner ends it ("off").
LoopStep(ph, o) ==
    CASE o.op = "send" -> ph
      [] ph = "fresh" /\ o.op = "register" /\ o.mode = "Level" /\ o.res = Ok
            -> "idle"
      [] ph = "idle" /\ o.op = "wait" ->
            IF o.events = <<>> THEN "idle" ELSE "event"
      [] ph = "event" /\ o.op = "handle_event" /\ o.res = Ok -> "handled"
      [] ph = "handled" /\ o.op = "poll" -> "idle"
      [] OTHER -> "off"

\* Whether the Poller holds a registration for the source: for the IOCP
\* Ping, which registers nothing in the Poller, whether it holds an interest
\* (the packet it posts).
Registered ==
    IF kind = "iocp" THEN interest # None ELSE reg # None

\* deregister called on a registered source ("once"), then again with
\* nothing in between ("twice", and so on).
TwiceStep(ph, o) ==
    CASE o.op = "deregister" /\ Registered -> "once"
      [] o.op = "deregister" /\ ph \in {"once", "twice"} -> "twice"
      [] OTHER -> "no"

\* The Event the source is registered with.
RegisteredEvent ==
    IF kind = "iocp" THEN Get(interest).event ELSE Get(reg).key

\* A Ping registered Level ("armed"); one or more notify since the last
\* handle_event ("notified"); the first wait after them ("reported").  A
\* register that fails tells the registration is as it was (EEXIST).
LevelStep(ph, o) ==
    CASE o.op \in {"register", "reregister"} /\ o.res = Ok ->
            IF o.mode = "Level" THEN "armed" ELSE "no"
      [] o.op = "register" -> ph
      [] o.op \in {"reregister", "deregister"} -> "no"
      [] ph # "no" /\ o.op = "notify" /\ o.res = Ok -> "notified"
      [] ph = "notified" /\ o.op = "wait" -> "reported"
      [] ph = "reported" /\ o.op = "wait" -> "armed"
      [] ph # "no" /\ o.op = "handle_event" -> "armed"
      [] OTHER -> ph

\* The PollMode the source is registered with.
RegisteredMode ==
    IF kind = "iocp" THEN Get(interest).mode ELSE Get(reg).mode

\* A Ping registered in some mode ("armed"); a wait has reported its event
\* ("reported"); handle_event has handled it ("handled"); a later notify
\* ("renotified"); the wait after it ("rewaited").  A handle_event made
\* before that wait takes the notification back ("handled").
ArmStep(ph, o) ==
    CASE o.op \in {"register", "reregister"} /\ o.res = Ok -> "armed"
      [] o.op = "register" -> ph
      [] o.op \in {"reregister", "deregister"} -> "no"
      [] ph = "armed" /\ o.op = "wait" /\ o.events # <<>> -> "reported"
      [] ph = "reported" /\ o.op = "handle_event" /\ o.res = Ok -> "handled"
      [] ph = "handled" /\ o.op = "notify" /\ o.res = Ok -> "renotified"
      [] ph = "renotified" /\ o.op = "wait" -> "rewaited"
      [] ph = "renotified" /\ o.op = "handle_event" -> "handled"
      [] ph = "rewaited" -> "over"
      [] OTHER -> ph

\* tests/source.rs level() and oneshot(): a source registered Level
\* ("level") or Oneshot ("oneshot"); for Oneshot, the wait that reported
\* the event ("reported") and the waits after it ("spent").
ShotStep(ph, o) ==
    CASE o.op \in {"register", "reregister"} /\ o.res = Ok ->
            IF o.mode = "Level" THEN "level"
            ELSE IF o.mode = "Oneshot" THEN "oneshot" ELSE "no"
      [] o.op = "register" -> ph
      [] o.op \in {"reregister", "deregister"} -> "no"
      [] ph = "oneshot" /\ o.op = "wait" /\ o.events # <<>> -> "reported"
      [] ph \in {"reported", "spent"} /\ o.op = "wait" -> "spent"
      [] OTHER -> ph

\* How many notify calls have returned Ok and are not yet matched by a
\* handle_event that returned Ok.
UnmatchedStep(n, o) ==
    CASE o.op = "notify" /\ o.res = Ok -> n + 1
      [] o.op = "handle_event" /\ o.res = Ok -> IF n > 0 THEN n - 1 ELSE 0
      [] OTHER -> n

\* Whether neither register nor reregister has been called on the source.
NeverStep(b, o) == b /\ o.op \notin {"register", "reregister"}

MonInit ==
    [oneshot |-> "fresh", dereg |-> "no", selfwake |-> "no",
     unblock |-> "fresh", loop |-> "fresh", twice |-> "no", level |-> "no",
     arm |-> "no", shot |-> "no", unmatched |-> 0, never |-> TRUE]

\* Each specification follows the scenarios of its own sources.
MonStep(m, o) ==
    [oneshot  |-> IF fkind = "none" THEN OneshotStep(m.oneshot, o)
                  ELSE m.oneshot,
     dereg    |-> IF fkind = "none" THEN DeregStep(m.dereg, o) ELSE m.dereg,
     selfwake |-> IF fkind \in {"task", "ready"}
                  THEN SelfWakeStep(m.selfwake, o) ELSE m.selfwake,
     unblock  |-> IF fkind = "task" THEN UnblockStep(m.unblock, o)
                  ELSE m.unblock,
     loop     |-> IF fkind = "recv" THEN LoopStep(m.loop, o) ELSE m.loop,
     twice    |-> TwiceStep(m.twice, o),
     level    |-> IF fkind = "none" THEN LevelStep(m.level, o) ELSE m.level,
     arm      |-> IF fkind = "none" THEN ArmStep(m.arm, o) ELSE m.arm,
     shot     |-> IF fkind = "none" THEN ShotStep(m.shot, o) ELSE m.shot,
     unmatched |-> IF fkind = "none" THEN UnmatchedStep(m.unmatched, o)
                   ELSE m.unmatched,
     never    |-> NeverStep(m.never, o)]

\* The key and mode shown by an operation that takes none.
NoKey == 0 - 1
NoMode == "none"

\* What an operation shows to the observers, once it has returned.
Observe(o, k, m) ==
    /\ op' = o
    /\ mon' = MonStep(mon, [op |-> o, key |-> k, mode |-> m, res |-> res',
                            events |-> events', fut |-> fut'])

(* ------------------------- Socket<T> as Source ------------------------ *)
(* The operations are functions of the source's state                      *)
(* s = [interest, pending, reg] that give the Result and the state after.  *)

Src == [interest |-> interest, pending |-> pending, reg |-> reg]

Done(r, s) == [res |-> r, st |-> s]

\* A register that uses Poller::add, which registers Oneshot whatever the
\* mode asked for.
Socket_register_AddOneshot(s, k, m) ==
    LET r == Poller_add_with_mode(s.reg, k, "Oneshot", s.pending)
    IN  Done(r.res, [s EXCEPT !.interest = Some([event |-> k, mode |-> m]),
                              !.reg = r.reg])

\* Socket::register
Socket_register(s, k, m) ==
    LET r == Poller_add_with_mode(s.reg, k, m, s.pending)
    IN  Done(r.res, [s EXCEPT !.interest = Some([event |-> k, mode |-> m]),
                              !.reg = r.reg])

\* Socket::reregister
Socket_reregister(s, k, m) ==
    LET r == Poller_modify_with_mode(s.reg, k, m, s.pending)
    IN  Done(r.res, [s EXCEPT !.interest = Some([event |-> k, mode |-> m]),
                              !.reg = r.reg])

\* A deregister that forgets the interest but leaves the handle in the
\* Poller.
Socket_deregister_NoDelete(s) == Done(Ok, [s EXCEPT !.interest = None])

\* A deregister that asks the Poller to delete whether or not an interest
\* is held.
Socket_deregister_AlwaysDelete(s) ==
    LET r == Poller_delete(s.reg)
    IN  Done(r.res, [s EXCEPT !.interest = None, !.reg = r.reg])

\* Socket::deregister
Socket_deregister(s) ==
    IF s.interest # None
    THEN LET r == Poller_delete(s.reg)
         IN  Done(r.res, [s EXCEPT !.interest = None, !.reg = r.reg])
    ELSE Done(Ok, s)

\* A handle_event that forgets the Interest.
Socket_handle_event_TakesInterest(s) == Done(Ok, [s EXCEPT !.interest = None])

\* Socket::handle_event
Socket_handle_event(s) == Done(Ok, s)

(* --------------------------- Ping (eventfd) --------------------------- *)

\* Ping::register (ping.rs) -> sys::Ping::register -> Socket::register
Ping_register(s, k, m) == Socket_register(s, k, m)

\* Ping::reregister
Ping_reregister(s, k, m) == Socket_reregister(s, k, m)

\* Ping::deregister
Ping_deregister(s) == Socket_deregister(s)

\* Ping::handle_event: drains one token, then Socket::handle_event.
Ping_handle_event(s) ==
    LET r == EventfdRead(s.pending)
    IN  IF r.res = Err THEN Done(Err, s)
        ELSE Socket_handle_event([s EXCEPT !.pending = r.pending])

\* Notifier::notify -> Notify::notify, from any thread.
Notify_notify(s) ==
    LET p == EventfdWrite(s.pending)
    IN  Done(Ok, [s EXCEPT !.pending = p,
                           !.reg = IF p > s.pending THEN OnWrite(s.reg)
                                   ELSE s.reg])

(* ------------------ the Ping / Socket specification ------------------- *)

FutIdle ==
    /\ fkind = "none" /\ fut = "none" /\ polls = 0 /\ pollret = None
    /\ panicked = FALSE

ChanIdle == queue = <<>> /\ sent = <<>> /\ received = <<>>

TimerIdle ==
    /\ now = 0 /\ timers = {} /\ last_id = 1 /\ tm = <<>> /\ fired = <<>>
    /\ ret = [next |-> None, expired |-> <<>>, notified |-> <<>>]
    /\ fire = [pc |-> "idle", now |-> 0, notifiers |-> <<>>, next |-> None,
               expired |-> <<>>, notified |-> <<>>]

\* Socket::new / Ping::new, and Poller::new.
SourceNew ==
    /\ interest = None
    /\ pending = 0
    /\ reg = None
    /\ events = <<>>
    /\ res = Ok
    /\ op = "new"
    /\ blocked = "none"
    /\ in_port = FALSE /\ edge_trigger = FALSE /\ port = <<>>
    /\ poller_live = TRUE
    /\ mon = MonInit

InitPing ==
    /\ kind \in {"ping", "socket"}
    /\ SourceNew
    /\ FutIdle /\ ChanIdle /\ TimerIdle

\* The state after an operation of the source that returned d.
Returns(d) ==
    /\ interest' = d.st.interest
    /\ pending' = d.st.pending
    /\ reg' = d.st.reg
    /\ res' = d.res
    /\ UNCHANGED <<kind, events>>

NotPing == UNCHANGED <<futVars, chanVars, timerVars, backendVars>>

Register ==
    \E k \in Keys, m \in Modes :
        /\ Returns(IF kind = "ping" THEN Ping_register(Src, k, m)
                   ELSE Socket_register(Src, k, m))
        /\ NotPing
        /\ Observe("register", k, m)

Reregister ==
    \E k \in Keys, m \in Modes :
        /\ Returns(IF kind = "ping" THEN Ping_reregister(Src, k, m)
                   ELSE Socket_reregister(Src, k, m))
        /\ NotPing
        /\ Observe("reregister", k, m)

Deregister ==
    /\ Returns(IF kind = "ping" THEN Ping_deregister(Src)
               ELSE Socket_deregister(Src))
    /\ NotPing
    /\ Observe("deregister", NoKey, NoMode)

HandleEvent ==
    /\ Returns(IF kind = "ping" THEN Ping_handle_event(Src)
               ELSE Socket_handle_event(Src))
    /\ NotPing
    /\ Observe("handle_event", NoKey, NoMode)

Notify ==
    /\ kind = "ping"
    /\ pending < MaxPending
    /\ Returns(Notify_notify(Src))
    /\ NotPing
    /\ Observe("notify", NoKey, NoMode)

\* The peer of the stream writes to it: the Socket's handle becomes readable.
StreamWrite ==
    /\ kind = "socket"
    /\ pending < MaxPending
    /\ Returns(Done(Ok, [Src EXCEPT !.pending = pending + 1,
                                    !.reg = OnWrite(reg)]))
    /\ NotPing
    /\ Observe("write", NoKey, NoMode)

\* Poller::wait with a timeout.
Wait ==
    /\ events' = Poller_wait(reg, pending)
    /\ reg' = AfterWait(reg, pending)
    /\ UNCHANGED <<kind, interest, pending, res>>

WaitPing == Wait /\ NotPing /\ Observe("wait", NoKey, NoMode)

NextPing ==
    \/ Register
    \/ Reregister
    \/ Deregister
    \/ HandleEvent
    \/ Notify
    \/ StreamWrite
    \/ WaitPing

SpecPing == InitPing /\ [][NextPing]_vars

(* ---------------------------- Ping (pipe) ---------------------------- *)
(* ping/pipe.rs, the backend of the Unix targets other than Linux.  The    *)
(* pipe is made by pipe_with(CLOEXEC), or pipe() and fcntl_setfd(CLOEXEC): *)
(* neither end is O_NONBLOCK, so read waits on an empty pipe and write on  *)
(* a full one.  pending is the number of bytes in the pipe.                *)

Blocked == "Blocked"

\* read(reader, &mut [0u8]) on a blocking pipe.
PipeRead(p) ==
    IF p = 0 THEN [res |-> Blocked, pending |-> p]
    ELSE [res |-> Ok, pending |-> p - 1]

\* write(writer, &[0u8]) on a blocking pipe.
PipeWrite(p) ==
    IF p >= PipeCap THEN [res |-> Blocked, pending |-> p]
    ELSE [res |-> Ok, pending |-> p + 1]

\* pipe::Ping::handle_event
Pipe_handle_event(s) ==
    LET r == PipeRead(s.pending)
    IN  IF r.res = Blocked THEN Done(Blocked, s)
        ELSE Socket_handle_event([s EXCEPT !.pending = r.pending])

\* pipe::Notify::notify
Pipe_notify(s) ==
    LET r == PipeWrite(s.pending)
    IN  IF r.res = Blocked THEN Done(Blocked, s)
        ELSE Done(Ok, [s EXCEPT !.pending = r.pending,
                                !.reg = OnWrite(s.reg)])

InitPipe ==
    /\ kind = "pipe"
    /\ SourceNew
    /\ FutIdle /\ ChanIdle /\ TimerIdle

NotPipe ==
    UNCHANGED <<futVars, chanVars, timerVars, in_port, edge_trigger, port,
                poller_live>>

\* The thread that made the call waits in the system call: nothing has
\* returned yet.
Waits(call) ==
    /\ blocked' = call
    /\ UNCHANGED <<pingVars, mon>>

\* Source::handle_event of the pipe Ping, called by the owner.
PipeHandleEvent ==
    /\ kind = "pipe" /\ blocked # "handle_event"
    /\ LET d == Pipe_handle_event(Src)
       IN  IF d.res = Blocked
           THEN Waits("handle_event") /\ NotPipe
           ELSE /\ Returns(d)
                /\ UNCHANGED blocked
                /\ NotPipe
                /\ Observe("handle_event", NoKey, NoMode)

\* A byte has arrived for the read the owner waits in: handle_event returns.
PipeReadResumes ==
    /\ kind = "pipe" /\ blocked = "handle_event"
    /\ pending > 0
    /\ Returns(Pipe_handle_event(Src))
    /\ blocked' = "none"
    /\ NotPipe
    /\ Observe("handle_event", NoKey, NoMode)

\* Notifier::notify of the pipe Ping, from any thread.
PipeNotify ==
    /\ kind = "pipe"
    /\ LET d == Pipe_notify(Src)
       IN  IF d.res = Blocked
           THEN blocked = "none" /\ Waits("notify") /\ NotPipe
           ELSE /\ Returns(d)
                /\ UNCHANGED blocked
                /\ NotPipe
                /\ Observe("notify", NoKey, NoMode)

\* Room has been made for the write a notifier waits in: notify returns.
PipeWriteResumes ==
    /\ kind = "pipe" /\ blocked = "notify"
    /\ pending < PipeCap
    /\ Returns(Pipe_notify(Src))
    /\ blocked' = "none"
    /\ NotPipe
    /\ Observe("notify", NoKey, NoMode)

\* The calls of the owner, which it makes when it is not waiting in one.
PipeOwner ==
    /\ kind = "pipe" /\ blocked # "handle_event"
    /\ \/ Register
       \/ Reregister
       \/ Deregister
       \/ WaitPing

NextPipe ==
    \/ PipeOwner
    \/ PipeHandleEvent
    \/ PipeReadResumes
    \/ PipeNotify
    \/ PipeWriteResumes

SpecPipe == InitPipe /\ [][NextPipe]_vars

(* ---------------------------- Ping (IOCP) ---------------------------- *)
(* ping/iocp.rs.  Inner {interest, notified, in_port, edge_trigger} under  *)
(* a Mutex: every operation below runs with the lock held.  The Ping is    *)
(* not registered in the Poller: it posts a CompletionPacket carrying the  *)
(* interest's Event to the completion port, and Poller::wait reports the   *)
(* packets that were posted.  pending is Inner.notified.                   *)

Inner ==
    [interest |-> interest, notified |-> pending, in_port |-> in_port,
     edge_trigger |-> edge_trigger, port |-> port, upgrade |-> poller_live]

\* A wake that posts to the port without upgrading the Weak.
Inner_wake_NoUpgrade(i) ==
    IF i.interest # None
    THEN [i EXCEPT !.port = Append(@, Get(i.interest).event),
                   !.in_port = TRUE]
    ELSE i

\* Inner::wake: i.upgrade tells whether interest.poller.upgrade() is Some.
Inner_wake(i) ==
    IF i.interest # None
    THEN IF i.upgrade
         THEN [i EXCEPT !.port = Append(@, Get(i.interest).event),
                        !.in_port = TRUE]
         ELSE i
    ELSE i

\* iocp::Ping::reregister
Iocp_reregister(i, k, m) ==
    LET a == [i EXCEPT !.interest = Some([event |-> k, mode |-> m])]
        is_edge == m \in EdgeModes
    IN  IF ~is_edge /\ (~a.in_port /\ a.notified > 0)
        THEN Done(Ok, Inner_wake(a))
        ELSE Done(Ok, a)

\* iocp::Ping::register
Iocp_register(i, k, m) == Iocp_reregister(i, k, m)

\* iocp::Ping::deregister
Iocp_deregister(i) ==
    Done(Ok, [i EXCEPT !.interest = None, !.in_port = FALSE,
                       !.edge_trigger = FALSE])

\* iocp::Ping::handle_event
Iocp_handle_event(i) ==
    Done(Ok, [i EXCEPT !.notified = IF @ > 0 THEN @ - 1 ELSE 0,
                       !.in_port = FALSE, !.edge_trigger = FALSE])

\* iocp::Notify::notify
Iocp_notify(i) ==
    Done(Ok, Inner_wake([i EXCEPT !.notified = @ + 1,
                                  !.edge_trigger = TRUE]))

InitIocp ==
    /\ kind = "iocp"
    /\ SourceNew
    /\ FutIdle /\ ChanIdle /\ TimerIdle

NotIocp == UNCHANGED <<futVars, chanVars, timerVars, blocked, poller_live>>

\* The state after an operation of the IOCP Ping that returned d.
IocpReturns(d) ==
    /\ Len(d.st.port) <= MaxPending
    /\ interest' = d.st.interest
    /\ pending' = d.st.notified
    /\ in_port' = d.st.in_port
    /\ edge_trigger' = d.st.edge_trigger
    /\ port' = d.st.port
    /\ res' = d.res
    /\ UNCHANGED <<kind, reg, events>>

IocpRegister ==
    \E k \in Keys, m \in Modes :
        /\ kind = "iocp" /\ poller_live
        /\ IocpReturns(Iocp_register(Inner, k, m))
        /\ NotIocp
        /\ Observe("register", k, m)

IocpReregister ==
    \E k \in Keys, m \in Modes :
        /\ kind = "iocp" /\ poller_live
        /\ IocpReturns(Iocp_reregister(Inner, k, m))
        /\ NotIocp
        /\ Observe("reregister", k, m)

IocpDeregister ==
    /\ kind = "iocp" /\ poller_live
    /\ IocpReturns(Iocp_deregister(Inner))
    /\ NotIocp
    /\ Observe("deregister", NoKey, NoMode)

IocpHandleEvent ==
    /\ kind = "iocp" /\ poller_live
    /\ IocpReturns(Iocp_handle_event(Inner))
    /\ NotIocp
    /\ Observe("handle_event", NoKey, NoMode)

IocpNotify ==
    /\ kind = "iocp"
    /\ pending < MaxPending
    /\ IocpReturns(Iocp_notify(Inner))
    /\ NotIocp
    /\ Observe("notify", NoKey, NoMode)

\* Poller::wait on the completion port: it reports the packets posted.
IocpWait ==
    /\ kind = "iocp" /\ poller_live
    /\ events' = port
    /\ port' = <<>>
    /\ UNCHANGED <<kind, interest, pending, reg, res, in_port, edge_trigger>>
    /\ NotIocp
    /\ Observe("wait", NoKey, NoMode)

\* The last Arc of the Poller is dropped: the completion port is closed
\* with the packets it holds, and no operation that takes the Poller can be
\* called any more; the Notifier can still notify.
IocpDropPoller ==
    /\ kind = "iocp" /\ poller_live
    /\ poller_live' = FALSE
    /\ port' = <<>>
    /\ UNCHANGED <<kind, interest, pending, reg, events, res, in_port,
                   edge_trigger>>
    /\ UNCHANGED <<futVars, chanVars, timerVars, blocked>>
    /\ Observe("drop_poller", NoKey, NoMode)

NextIocp ==
    \/ IocpRegister
    \/ IocpReregister
    \/ IocpDeregister
    \/ IocpHandleEvent
    \/ IocpNotify
    \/ IocpWait
    \/ IocpDropPoller

SpecIocp == InitIocp /\ [][NextIocp]_vars

(* ------------------- every Source, on every backend ------------------ *)

InitSources ==
    /\ kind \in {"ping", "socket", "pipe", "iocp"}
    /\ SourceNew
    /\ FutIdle /\ ChanIdle /\ TimerIdle

\* The operations of a Socket or of an eventfd Ping.
FdSource == kind \in {"ping", "socket"} /\ NextPing

NextSources ==
    \/ FdSource
    \/ NextPipe
    \/ NextIocp

SpecSources == InitSources /\ [][NextSources]_vars

(* ----------------------------- PollFuture ----------------------------- *)
(* PollFutureWithArg {ping, waker, future}.  The wrapped future is one of: *)
(*   "task"   blocking::Task, the handle of a closure running in the pool: *)
(*            "running" (no awaiter stored), "awaited" (running, the waker *)
(*            of the last poll stored), "finished" (the closure returned), *)
(*            "taken" (the output has been returned by a poll);            *)
(*   "ready"  std::future::ready(v): "ready", then "taken";                *)
(*   "recv"   async { receiver.recv().await.ok() } of the channel: "fresh" *)
(*            (never polled), "listening" (pending, its listener holds the *)
(*            waker), "notified" (a send notified the listener), "done".   *)

\* The value the closure of tests/threadpool.rs returns.
FnValue == 5

\* std::task::Poll<T>
Pending == [ready |-> FALSE, val |-> 0]
ReadyOf(v) == [ready |-> TRUE, val |-> v]

\* Future::poll of the wrapped future, the channel holding q: the state of
\* the future after, what the poll returns, the channel after, and whether
\* the poll panics (a future polled again after it completed).
Future_poll(fk, f, q) ==
    CASE fk = "task" /\ f \in {"running", "awaited"} ->
            [fut |-> "awaited", ret |-> Pending, queue |-> q, panic |-> FALSE]
      [] fk = "task" /\ f = "finished" ->
            [fut |-> "taken", ret |-> ReadyOf(FnValue), queue |-> q,
             panic |-> FALSE]
      [] fk = "ready" /\ f = "ready" ->
            [fut |-> "taken", ret |-> ReadyOf(FnValue), queue |-> q,
             panic |-> FALSE]
      [] fk = "recv" /\ f \in {"fresh", "listening", "notified"} ->
            IF q # <<>>
            THEN [fut |-> "done", ret |-> ReadyOf(Head(q)), queue |-> Tail(q),
                  panic |-> FALSE]
            ELSE [fut |-> "listening", ret |-> Pending, queue |-> q,
                  panic |-> FALSE]
      [] OTHER ->
            [fut |-> f, ret |-> Pending, queue |-> q, panic |-> TRUE]

\* Whether the future holds the waker and will invoke it when its event
\* (the closure returning, a message being sent) happens.
HoldsWaker(f) == f \in {"awaited", "listening"}

\* Notify as Wake (future.rs): wake / wake_by_ref notify the Ping.
Wake_wake_by_ref(s) == Notify_notify(s)

\* A register that does not wake the waker.
PollFuture_register_NoWake(s, k, m) == Ping_register(s, k, m)

\* PollFutureWithArg::register
PollFuture_register(s, k, m) ==
    LET a == Ping_register(s, k, m)
    IN  IF a.res = Err THEN a ELSE Wake_wake_by_ref(a.st)

\* PollFutureWithArg::reregister
PollFuture_reregister(s, k, m) == Ping_reregister(s, k, m)

\* PollFutureWithArg::deregister
PollFuture_deregister(s) == Ping_deregister(s)

\* PollFutureWithArg::handle_event
PollFuture_handle_event(s) == Ping_handle_event(s)

\* PollFutureWithArg::poll / poll_unpin
PollFuture_poll ==
    LET r == Future_poll(fkind, fut, queue)
    IN  /\ fut' = r.fut
        /\ pollret' = Some(r.ret)
        /\ queue' = r.queue
        /\ panicked' = r.panic
        /\ polls' = polls + 1

(* ---------------- the PollFuture / UnblockFn specification ------------ *)

InitFuture ==
    /\ kind = "ping"
    /\ SourceNew
    /\ fkind \in {"task", "ready"}
    /\ fut = IF fkind = "task" THEN "running" ELSE "ready"
    /\ polls = 0 /\ pollret = None /\ panicked = FALSE
    /\ ChanIdle /\ TimerIdle

\* An operation of the owner; none follows a panic.
Owner == ~panicked

FutSame == UNCHANGED <<fkind, fut, polls, pollret, panicked>>

\* Source::register of PollFuture / UnblockFn / Receiver
FutRegister ==
    \E k \in Keys, m \in Modes :
        /\ Owner
        /\ pending < MaxPending
        /\ Returns(PollFuture_register(Src, k, m))
        /\ FutSame
        /\ UNCHANGED <<chanVars, timerVars, backendVars>>
        /\ Observe("register", k, m)

\* Source::deregister
FutDeregister ==
    /\ Owner
    /\ Returns(PollFuture_deregister(Src))
    /\ FutSame
    /\ UNCHANGED <<chanVars, timerVars, backendVars>>
    /\ Observe("deregister", NoKey, NoMode)

\* Source::handle_event
FutHandleEvent ==
    /\ Owner
    /\ Returns(PollFuture_handle_event(Src))
    /\ FutSame
    /\ UNCHANGED <<chanVars, timerVars, backendVars>>
    /\ Observe("handle_event", NoKey, NoMode)

\* Source::reregister of PollFuture / UnblockFn
FutReregister ==
    \E k \in Keys, m \in Modes :
        /\ Owner
        /\ Returns(PollFuture_reregister(Src, k, m))
        /\ FutSame
        /\ UNCHANGED <<chanVars, timerVars, backendVars>>
        /\ Observe("reregister", k, m)

\* UnblockFn::result / PollFuture::poll_unpin
Result ==
    /\ Owner
    /\ polls < MaxPolls
    /\ PollFuture_poll
    /\ UNCHANGED <<fkind, sent, received>>
    /\ UNCHANGED <<kind, interest, pending, reg, events, res>>
    /\ UNCHANGED <<timerVars, backendVars>>
    /\ Observe("poll", NoKey, NoMode)

\* The closure returns in the thread pool (tests/threadpool.rs: the thread
\* is unparked): the Task wakes the waker it holds, if it holds one.
TaskComplete ==
    /\ fkind = "task"
    /\ fut \in {"running", "awaited"}
    /\ fut' = "finished"
    /\ IF HoldsWaker(fut)
       THEN pending < MaxPending /\ Returns(Wake_wake_by_ref(Src))
       ELSE UNCHANGED <<kind, interest, pending, reg, events, res>>
    /\ UNCHANGED <<fkind, polls, pollret, panicked>>
    /\ UNCHANGED <<chanVars, timerVars, backendVars>>
    /\ Observe("complete", NoKey, NoMode)

WaitFuture ==
    /\ Owner
    /\ Wait
    /\ FutSame
    /\ UNCHANGED <<chanVars, timerVars, backendVars>>
    /\ Observe("wait", NoKey, NoMode)

NextFuture ==
    \/ FutRegister
    \/ FutReregister
    \/ FutDeregister
    \/ FutHandleEvent
    \/ Result
    \/ TaskComplete
    \/ WaitFuture

SpecFuture == InitFuture /\ [][NextFuture]_vars

(* ------------------------------ channel ------------------------------- *)
(* unbounded(): Sender {inner} and Receiver {future: PollFuture, inner}.   *)
(* The values sent are numbered 1, 2, ... in the order they are sent.      *)

InitChan ==
    /\ kind = "ping"
    /\ SourceNew
    /\ fkind = "recv"
    /\ fut = "fresh"
    /\ polls = 0 /\ pollret = None /\ panicked = FALSE
    /\ ChanIdle /\ TimerIdle

\* Sender::send: try_send on the unbounded channel, which notifies one
\* listener that has not been notified yet; that listener wakes its waker.
Send ==
    /\ Len(sent) < MaxSends
    /\ LET v == Len(sent) + 1
       IN  /\ queue' = Append(queue, v)
           /\ sent' = Append(sent, v)
    /\ IF HoldsWaker(fut)
       THEN /\ pending < MaxPending
            /\ fut' = "notified"
            /\ Returns(Wake_wake_by_ref(Src))
       ELSE /\ fut' = fut
            /\ res' = Ok
            /\ UNCHANGED <<kind, interest, pending, reg, events>>
    /\ UNCHANGED <<fkind, polls, pollret, panicked, received>>
    /\ UNCHANGED <<timerVars, backendVars>>
    /\ Observe("send", NoKey, NoMode)

\* Receiver::recv
Recv ==
    /\ Owner
    /\ polls < MaxPolls
    /\ PollFuture_poll
    /\ received' = IF Get(pollret').ready
                   THEN Append(received, Get(pollret').val)
                   ELSE received
    /\ UNCHANGED <<fkind, sent>>
    /\ UNCHANGED <<kind, interest, pending, reg, events, res>>
    /\ UNCHANGED <<timerVars, backendVars>>
    /\ Observe("poll", NoKey, NoMode)

\* A reregister that keeps the stored future.
RecvReregister_NoReset ==
    \E k \in Keys, m \in Modes :
        /\ Owner
        /\ Returns(PollFuture_reregister(Src, k, m))
        /\ FutSame
        /\ UNCHANGED <<chanVars, timerVars, backendVars>>
        /\ Observe("reregister", k, m)

\* Receiver::reregister: PollFuture's reregister, then a new recv future.
RecvReregister ==
    \E k \in Keys, m \in Modes :
        /\ Owner
        /\ Returns(PollFuture_reregister(Src, k, m))
        /\ fut' = IF res' = Ok THEN "fresh" ELSE fut
        /\ UNCHANGED <<fkind, polls, pollret, panicked>>
        /\ UNCHANGED <<chanVars, timerVars, backendVars>>
        /\ Observe("reregister", k, m)

NextChan ==
    \/ FutRegister
    \/ RecvReregister
    \/ FutDeregister
    \/ FutHandleEvent
    \/ Recv
    \/ Send
    \/ WaitFuture

SpecChan == InitChan /\ [][NextChan]_vars

(* ----------------------------- TimerWheel ---------------------------- *)
(* An Instant is a number 0..InstantMax and a Duration a number            *)
(* 0..DurationMax.  A wheel entry is [deadline, id, notifier]: the key     *)
(* (deadline, id) and the Notifier, named by the Timer (its position in    *)
(* tm) whose Ping it notifies.  A Timer is [id, deadline, interval, ping]  *)
(* (ping: the counter of its Ping's eventfd) with, for the claims, how it  *)
(* was made and the deadline it was asked for (want).                      *)

\* Duration::MAX (u64::MAX seconds against an Instant of i64 seconds).
DurationMax == 2 * InstantMax + 1

Durations == (1..MaxDur) \cup {DurationMax}

\* Instant::checked_add
checked_add(t, d) == IF t + d > InstantMax THEN None ELSE Some(t + d)

\* Instant::saturating_duration_since
saturating_duration_since(t, earlier) == IF t > earlier THEN t - earlier ELSE 0

\* The order of the keys (Instant, usize) of the BTreeMap.
KeyLess(a, b) == a[1] < b[1] \/ (a[1] = b[1] /\ a[2] < b[2])

KeyOf(e) == <<e.deadline, e.id>>

\* BTreeMap::insert
Insert(w, dl, id, n) ==
    {e \in w : KeyOf(e) # <<dl, id>>}
        \cup {[deadline |-> dl, id |-> id, notifier |-> n]}

\* BTreeMap::split_off(&key): self keeps the keys below key, the rest is
\* returned.
split_off(w, key) ==
    [self |-> {e \in w : KeyLess(KeyOf(e), key)},
     returned |-> {e \in w : ~KeyLess(KeyOf(e), key)}]

\* A split key that sorts above the entries whose deadline is t.
FireKey_Inclusive(t) == <<t + 1, 0>>

\* The key fire_timers splits the wheel at.
FireKey(t) == <<t, 0>>

\* The entries of a set of wheel entries in the order of their keys.
RECURSIVE InOrder(_)
InOrder(w) ==
    IF w = {} THEN <<>>
    ELSE LET first == CHOOSE e \in w :
                          \A f \in w \ {e} : KeyLess(KeyOf(e), KeyOf(f))
         IN  <<first>> \o InOrder(w \ {first})

\* The time until the last deadline of the wheel w.
NextWait_Latest(w, t) ==
    IF w = {} THEN None
    ELSE Some(saturating_duration_since(InOrder(w)[Cardinality(w)].deadline,
                                        t))

\* The time until the first deadline of the wheel w.
NextWait(w, t) ==
    IF w = {} THEN None
    ELSE Some(saturating_duration_since(InOrder(w)[1].deadline, t))

\* TimerWheel::fire_timers at time t: the wheel after, the entries whose
\* Notifier is notified, in order, and the value returned.
fire_timers(w, t) ==
    LET split == split_off(w, FireKey(t))
        \* std::mem::swap(&mut self.timers, &mut expired)
        kept == split.returned
        expired == split.self
    IN  [timers |-> kept,
         notifiers |-> InOrder(expired),
         next |-> NextWait(kept, t)]

\* An interval_at that does not advance last_id.
interval_at_SameId(w, id, n, start, interval) ==
    LET deadline == checked_add(start, interval)
    IN  [timer |-> [id |-> id, deadline |-> deadline, interval |-> interval,
                    ping |-> 0],
         last_id |-> id,
         timers |-> IF deadline # None THEN Insert(w, Get(deadline), id, n)
                    ELSE w]

\* An interval_at whose first deadline is start itself.
interval_at_FromStart(w, id, n, start, interval) ==
    [timer |-> [id |-> id, deadline |-> Some(start), interval |-> interval,
                ping |-> 0],
     last_id |-> id + 1,
     timers |-> Insert(w, start, id, n)]

\* TimerWheel::interval_at: the Timer made and the wheel after.
interval_at(w, id, n, start, interval) ==
    LET deadline == checked_add(start, interval)
    IN  [timer |-> [id |-> id, deadline |-> deadline, interval |-> interval,
                    ping |-> 0],
         last_id |-> id + 1,
         timers |-> IF deadline # None THEN Insert(w, Get(deadline), id, n)
                    ELSE w]

\* Timer::never
never == [id |-> 0, deadline |-> None, interval |-> DurationMax, ping |-> 0]

\* How many of the entries in the sequence q notify Timer n.
RECURSIVE Count(_, _)
Count(q, n) ==
    IF q = <<>> THEN 0
    ELSE (IF Head(q).notifier = n THEN 1 ELSE 0) + Count(Tail(q), n)

(* --------------------- the TimerWheel specification ------------------- *)

InitTimer ==
    /\ kind = "ping"
    /\ SourceNew
    /\ FutIdle /\ ChanIdle /\ TimerIdle

NotTimer ==
    /\ UNCHANGED <<kind, interest, pending, reg, events, res, mon>>
    /\ UNCHANGED <<futVars, chanVars, backendVars>>

\* A Timer made by the constructor how, asked for the deadline want, or to
\* recur from the Instant start; bumps counts its handle_event calls.
Made(r, how, want, start) ==
    /\ Len(tm) < MaxTimers
    /\ tm' = Append(tm, [id |-> r.timer.id, deadline |-> r.timer.deadline,
                         interval |-> r.timer.interval, ping |-> r.timer.ping,
                         how |-> how, want |-> want, live |-> TRUE,
                         start |-> start, bumps |-> 0])
    /\ fired' = Append(fired, 0)
    /\ timers' = r.timers
    /\ last_id' = r.last_id
    /\ op' = how
    /\ UNCHANGED <<now, ret, fire>>
    /\ NotTimer

\* TimerWheel::at
At ==
    \E deadline \in 0..MaxTime :
        Made(interval_at(timers, last_id, Len(tm) + 1, deadline, DurationMax),
             "at", Some(deadline), None)

\* TimerWheel::after
After ==
    \E duration \in Durations :
        LET deadline == checked_add(now, duration)
        IN  IF deadline # None
            THEN Made(interval_at(timers, last_id, Len(tm) + 1, Get(deadline),
                                  DurationMax),
                      "after", deadline, None)
            ELSE Made([timer |-> never, last_id |-> last_id,
                       timers |-> timers],
                      "after", None, None)

\* TimerWheel::interval
Interval ==
    \E interval \in Durations :
        Made(interval_at(timers, last_id, Len(tm) + 1, now, interval),
             "interval", checked_add(now, interval), Some(now))

\* TimerWheel::interval_at
IntervalAt ==
    \E start \in 0..MaxTime, interval \in Durations :
        Made(interval_at(timers, last_id, Len(tm) + 1, start, interval),
             "interval_at", checked_add(start, interval), Some(start))

\* Whether notify fails on the Notifier of Timer n: the write end of a pipe
\* whose read end was closed with the Timer's Ping gives EPIPE; the eventfd
\* stays open as long as a Notifier holds it.
NotifyFails(n) == kind = "pipe" /\ ~tm[n].live

\* for notifier in notifiers { notifier.notify()?; }: the entries notified
\* before the first notify that fails.
RECURSIVE Notified(_)
Notified(q) ==
    IF q = <<>> \/ NotifyFails(Head(q).notifier) THEN <<>>
    ELSE <<Head(q)>> \o Notified(Tail(q))

\* The Timers that the entries of q notify.
NotifiersOf(q) == [j \in 1..Len(q) |-> q[j].notifier]

\* TimerWheel::fire_timers
FireTimers ==
    LET r == fire_timers(timers, now)
        done == Notified(r.notifiers)
        ok == Len(done) = Len(r.notifiers)
    IN  /\ \A i \in 1..Len(tm) :
               tm[i].ping + Count(done, i) <= MaxFired
        /\ timers' = r.timers
        /\ tm' = [i \in 1..Len(tm) |->
                     [tm[i] EXCEPT !.ping = @ + Count(done, i)]]
        /\ fired' = [i \in 1..Len(tm) |-> fired[i] + Count(done, i)]
        /\ res' = IF ok THEN Ok ELSE Err
        /\ ret' = [next |-> IF ok THEN r.next ELSE None,
                   expired |-> NotifiersOf(r.notifiers),
                   notified |-> NotifiersOf(done)]
        /\ op' = "fire_timers"
        /\ UNCHANGED <<now, last_id, fire>>
        /\ UNCHANGED <<kind, interest, pending, reg, events, mon>>
        /\ UNCHANGED <<futVars, chanVars, backendVars>>

\* A handle_event that drains the Ping and leaves the deadline as it is.
Timer_handle_event_NoBump(t) ==
    IF t.ping = 0 THEN [res |-> Err, timer |-> t]
    ELSE [res |-> Ok, timer |-> [t EXCEPT !.ping = @ - 1]]

\* Timer::handle_event: the Result and the Timer after.
Timer_handle_event(t) ==
    LET s == [interest |-> None, pending |-> t.ping, reg |-> None]
        r == IF kind = "pipe" THEN Pipe_handle_event(s)
             ELSE Ping_handle_event(s)
    IN  IF r.res # Ok THEN [res |-> r.res, timer |-> t]
        ELSE [res |-> Ok,
              timer |-> [t EXCEPT
                            !.ping = r.st.pending,
                            !.deadline =
                                IF t.deadline # None
                                THEN checked_add(Get(t.deadline), t.interval)
                                ELSE None]]

\* Timer::handle_event, for the calls that return Ok: one that fails
\* changes nothing.
TimerHandleEvent ==
    \E i \in 1..Len(tm) :
        LET r == Timer_handle_event(tm[i])
        IN  /\ tm[i].live
            /\ r.res = Ok
            /\ tm' = [tm EXCEPT ![i] = [r.timer EXCEPT !.bumps = @ + 1]]
            /\ op' = "timer_handle_event"
            /\ UNCHANGED <<now, timers, last_id, fired, ret, fire>>
            /\ NotTimer

\* Timer::handle_wheel
HandleWheel ==
    \E i \in 1..Len(tm) :
        /\ tm[i].live
        /\ timers' = IF tm[i].deadline # None
                     THEN Insert(timers, Get(tm[i].deadline), tm[i].id, i)
                     ELSE timers
        /\ op' = "handle_wheel"
        /\ UNCHANGED <<now, last_id, tm, fired, ret, fire>>
        /\ NotTimer

\* Time passes.
Tick ==
    /\ now < MaxTime
    /\ now' = now + 1
    /\ op' = "tick"
    /\ UNCHANGED <<timers, last_id, tm, fired, ret, fire>>
    /\ NotTimer

NextTimer ==
    \/ At
    \/ After
    \/ Interval
    \/ IntervalAt
    \/ FireTimers
    \/ TimerHandleEvent
    \/ HandleWheel
    \/ Tick

SpecTimer == InitTimer /\ [][NextTimer]_vars

(* ------------------------- Timers being dropped ----------------------- *)
(* Timer has no Drop of its own: dropping it drops its Ping and leaves the *)
(* wheel, which holds clones of the Notifier, as it is.                    *)

InitTimerDrop ==
    /\ kind \in {"ping", "pipe"}
    /\ SourceNew
    /\ FutIdle /\ ChanIdle /\ TimerIdle

\* drop(timer)
DropTimer ==
    \E i \in 1..Len(tm) :
        /\ tm[i].live
        /\ tm' = [tm EXCEPT ![i].live = FALSE]
        /\ op' = "drop"
        /\ UNCHANGED <<now, timers, last_id, fired, ret, fire>>
        /\ NotTimer

NextTimerDrop ==
    \/ NextTimer
    \/ DropTimer

SpecTimerDrop == InitTimerDrop /\ [][NextTimerDrop]_vars

(* --------------------- fire_timers, line by line ---------------------- *)
(* fire_timers holds the wheel (&mut self) from its first line to its     *)
(* return: no other operation of the wheel runs meanwhile.  Time passes,   *)
(* and the owner of a Timer may handle its event as soon as it is          *)
(* notified.  fire is [pc, now, notifiers, next] and, for the value        *)
(* returned, the Timers expired and notified.                              *)

\* A fire_timers that leaves out std::mem::swap.
Swapped_NoSwap(split) == [timers |-> split.self, expired |-> split.returned]

\* let mut expired = self.timers.split_off(..); swap(&mut self.timers,
\* &mut expired): the wheel and expired after.
Swapped(split) == [timers |-> split.returned, expired |-> split.self]

FireSame ==
    /\ UNCHANGED <<kind, interest, pending, reg, events, mon>>
    /\ UNCHANGED <<futVars, chanVars, backendVars>>

\* let now = Instant::now(); let mut notifiers = vec![];
FireStart ==
    /\ fire.pc = "idle"
    /\ fire' = [pc |-> "split", now |-> now, notifiers |-> <<>>,
                next |-> None, expired |-> <<>>, notified |-> <<>>]
    /\ op' = "fire_start"
    /\ UNCHANGED <<now, timers, last_id, tm, fired, ret, res>>
    /\ FireSame

\* split_off, swap, notifiers.extend(expired.into_values())
FireSplit ==
    /\ fire.pc = "split"
    /\ LET s == Swapped(split_off(timers, FireKey(fire.now)))
       IN  /\ timers' = s.timers
           /\ fire' = [fire EXCEPT !.pc = "next",
                                   !.notifiers = InOrder(s.expired),
                                   !.expired = NotifiersOf(InOrder(s.expired))]
    /\ op' = "fire_split"
    /\ UNCHANGED <<now, last_id, tm, fired, ret, res>>
    /\ FireSame

\* let next = ...
FireNext ==
    /\ fire.pc = "next"
    /\ fire' = [fire EXCEPT !.pc = "notify",
                            !.next = NextWait(timers, fire.now)]
    /\ op' = "fire_next"
    /\ UNCHANGED <<now, timers, last_id, tm, fired, ret, res>>
    /\ FireSame

\* notifier.notify()? for the next notifier: the call returns the error of
\* a notify that fails.
FireNotify ==
    /\ fire.pc = "notify" /\ fire.notifiers # <<>>
    /\ LET n == Head(fire.notifiers).notifier
       IN  IF NotifyFails(n)
           THEN /\ res' = Err
                /\ ret' = [next |-> None, expired |-> fire.expired,
                           notified |-> fire.notified]
                /\ fire' = [fire EXCEPT !.pc = "idle"]
                /\ op' = "fire_timers"
                /\ UNCHANGED <<tm, fired>>
           ELSE /\ tm[n].ping < MaxFired
                /\ tm' = [tm EXCEPT ![n].ping = @ + 1]
                /\ fired' = [fired EXCEPT ![n] = @ + 1]
                /\ fire' = [fire EXCEPT !.notifiers = Tail(@),
                                        !.notified = Append(@, n)]
                /\ op' = "fire_notify"
                /\ UNCHANGED <<ret, res>>
    /\ UNCHANGED <<now, timers, last_id>>
    /\ FireSame

\* Ok(next)
FireReturn ==
    /\ fire.pc = "notify" /\ fire.notifiers = <<>>
    /\ res' = Ok
    /\ ret' = [next |-> fire.next, expired |-> fire.expired,
               notified |-> fire.notified]
    /\ fire' = [fire EXCEPT !.pc = "idle"]
    /\ op' = "fire_timers"
    /\ UNCHANGED <<now, timers, last_id, tm, fired>>
    /\ FireSame

\* The operations that take the wheel by &mut.
WheelOwner ==
    /\ fire.pc = "idle"
    /\ (At \/ After \/ Interval \/ IntervalAt \/ HandleWheel)

NextFire ==
    \/ WheelOwner
    \/ FireStart
    \/ FireSplit
    \/ FireNext
    \/ FireNotify
    \/ FireReturn
    \/ TimerHandleEvent
    \/ Tick

SpecFire == InitTimer /\ [][NextFire]_vars

(* ------------------------------ claims -------------------------------- *)

\* C1: a Ping registered Oneshot on a fresh Poller: a wait before any
\* notify reports no event; after one notify the wait reports exactly one
\* event, carrying the registered key; after handle_event a wait reports no
\* event; after reregister (Oneshot) and one notify the wait again reports
\* exactly one event.
C1_OneshotPing ==
    (kind = "ping" /\ op = "wait") =>
        /\ mon.oneshot \in {"reg", "handled"} => events = <<>>
        /\ mon.oneshot \in {"reported", "rereported"} =>
               events = <<Get(interest).event>>

C1_Witness ==
    /\ kind = "ping" /\ op = "wait"
    /\ mon.oneshot = "rereported"
    /\ events = <<1>>

\* C10: after a Source (Ping or Socket) has been deregistered, a wait
\* reports no event, whatever notify or write follows, until the Source is
\* registered again.
C10_DeregisterSilences ==
    (op = "wait" /\ mon.dereg \in {"dereg", "dereg0", "signalled"}) =>
        events = <<>>

C10_Witness ==
    /\ op = "wait" /\ mon.dereg = "signalled" /\ pending > 0 /\ interest = None

\* C2: PollFuture.register, when the Ping registration succeeds, invokes
\* the waker exactly once (one notification is added to the Ping), and the
\* next wait, with nothing else in between, reports one event for the
\* PollFuture, also when the wrapped future is immediately Ready; when the
\* Ping registration fails the waker is not invoked.
C2_RegisterWakesOnce ==
    /\ [][op' = "register" =>
            /\ res' = Ok => pending' = pending + 1
            /\ res' = Err => pending' = pending]_vars
    /\ [](mon.selfwake = "waited" => events = <<Get(interest).event>>)

C2_Witness ==
    /\ fkind = "ready" /\ fut = "ready"
    /\ mon.selfwake = "waited"
    /\ events = <<1>>

\* C3: each handle_event of a PollFuture that drains the Ping polls the
\* wrapped future exactly once, and the future is polled by no other
\* operation and only while the PollFuture is registered.
C3_PolledOnlyInHandleEvent ==
    [][/\ (op' = "handle_event" /\ res' = Ok) => polls' = polls + 1
       /\ polls' # polls => (op' = "handle_event" /\ reg # None)]_vars

\* C4: an UnblockFn registered Level while its task is blocked: the first
\* wait reports exactly one event; after handle_event a wait reports none
\* while the task stays blocked; once the task completes a wait reports
\* exactly one event; after handling it a wait reports none and result()
\* returns Ready with the value of the function.
C4_UnblockFnScenario ==
    /\ mon.unblock \in {"w1", "w2"} => events = <<Get(interest).event>>
    /\ (mon.unblock \in {"h1", "h2w"} /\ op = "wait") => events = <<>>
    /\ mon.unblock = "result" => pollret = Some(ReadyOf(FnValue))

\* C5: the owner of a Receiver registered Level loops on wait, handle_event
\* for the event reported, then recv: the values recv returns are the
\* values sent, in the order sent, none skipped or repeated, and the loop
\* comes to rest (a wait that reports nothing) only when every value sent
\* has been returned.
C5_ChannelFifo ==
    mon.loop \in {"idle", "event", "handled"} =>
        /\ ~panicked
        /\ Len(received) <= Len(sent)
        /\ \A i \in 1..Len(received) : received[i] = sent[i]
        /\ (mon.loop = "idle" /\ op = "wait" /\ events = <<>>) =>
               received = sent

\* C6: every successful send on a channel whose Receiver is registered
\* wakes the Receiver's waker (one notification is added to the Ping), and
\* every handled event either consumes a message or leaves the stored
\* future holding the waker, so that the next send wakes it.
C6_NoMessageLost ==
    [][/\ (op' = "send" /\ res' = Ok /\ reg # None) => pending' = pending + 1
       /\ (op' = "handle_event" /\ res' = Ok) =>
              (Len(queue') < Len(queue) \/ HoldsWaker(fut'))]_vars

\* C7: a timer created by after(d) is in the wheel with deadline now + d,
\* and one created by at(deadline) with that deadline, as soon as it is
\* created; it is notified at most once; and once a fire_timers call has
\* been made at a time past its deadline it has been notified exactly once.
C7_OneShotTimers ==
    \A i \in 1..Len(tm) :
        (tm[i].how \in {"at", "after"} /\ tm[i].want # None) =>
            /\ (op \in {"at", "after"} /\ i = Len(tm)) =>
                   \E e \in timers :
                       e.notifier = i /\ e.deadline = Get(tm[i].want)
            /\ fired[i] <= 1
            /\ (op = "fire_timers" /\ now > Get(tm[i].want)) => fired[i] = 1

\* C8: after fire_timers has run at time now, no entry whose deadline is
\* <= now is left in the wheel: each was removed and notified; the entries
\* whose deadline is > now are still there, un-notified.
C8_FireTimersExpires ==
    /\ [](op = "fire_timers" => \A e \in timers : e.deadline > now)
    /\ [][op' = "fire_timers" =>
            /\ timers' = {e \in timers : e.deadline > now}
            /\ \A i \in 1..Len(tm) :
                   fired'[i] - fired[i] =
                       Cardinality({e \in timers :
                                       e.notifier = i /\ e.deadline <= now})]_vars

\* C9: with two timers in the wheel, of deadlines t1 < t2, fire_timers at a
\* time t with t1 <= t < t2 notifies the t1 timer and not the t2 timer, and
\* returns Some(t2 - t).
C9_FiresFirstOnly ==
    [][\A e1, e2 \in timers :
           (/\ op' = "fire_timers"
            /\ timers = {e1, e2}
            /\ e1.notifier # e2.notifier
            /\ e1.deadline < e2.deadline
            /\ e1.deadline <= now /\ now < e2.deadline) =>
               /\ fired' = [fired EXCEPT ![e1.notifier] = @ + 1]
               /\ ret'.notified = <<e1.notifier>>
               /\ ret'.next = Some(e2.deadline - now)]_vars

\* C11: deregister called twice in a row on a registered Source returns Ok
\* both times; the second call changes no state (so it asked nothing of the
\* Poller: a delete of a handle that is not registered returns an error);
\* and afterwards the Poller holds no registration for the Source.
C11_DeregisterIdempotent ==
    /\ [](mon.twice \in {"once", "twice"} => (res = Ok /\ ~Registered))
    /\ [][mon'.twice = "twice" =>
            UNCHANGED <<interest, pending, reg, events, in_port,
                        edge_trigger, port>>]_vars

C11_Witness ==
    /\ mon.twice = "twice" /\ op = "deregister" /\ res = Ok
    /\ kind \in {"ping", "socket", "pipe"} /\ pending > 0 /\ reg = None

\* C12: whatever register, reregister, deregister and handle_event calls
\* came before, and whatever they returned, a deregister of a Source that
\* the Poller holds no registration for returns Ok and asks no delete of
\* the Poller.
C12_DeregisterUnregistered ==
    [][(op' = "deregister" /\ ~Registered) =>
           (res' = Ok /\ UNCHANGED reg)]_vars

\* C13: while a Ping is registered in mode Level, one or more notify calls
\* made since the last handle_event make the next wait report the event the
\* Ping is registered with.
C13_LevelNotifyReported ==
    (op = "wait" /\ mon.level = "reported") =>
        \E i \in 1..Len(events) : events[i] = RegisteredEvent

C13_Witness ==
    /\ op = "wait" /\ mon.level = "reported"
    /\ kind = "ping" /\ pending = 2 /\ events = <<1>>

\* C14: once handle_event has handled the event of a registered Ping, a
\* later notify makes the next wait report no event when the registration
\* is Oneshot or EdgeOneshot (the Ping is disarmed until reregister), and
\* report the event again when it is Level or Edge; on every backend.
C14_ArmedAfterHandleEvent ==
    (op = "wait" /\ mon.arm = "rewaited") =>
        IF RegisteredMode \in OneshotModes
        THEN events = <<>>
        ELSE \E i \in 1..Len(events) : events[i] = RegisteredEvent

\* C15: for a Socket whose handle stays readable (data written and not
\* read): registered Level, every wait reports the registered event;
\* registered Oneshot, the first wait after the write reports the event and
\* the waits after it report none until reregister.
C15_LevelAndOneshotSocket ==
    (kind = "socket" /\ op = "wait") =>
        /\ (mon.shot = "level" /\ pending > 0) => events = <<RegisteredEvent>>
        /\ mon.shot = "oneshot" => pending = 0
        /\ mon.shot = "reported" => events = <<RegisteredEvent>>
        /\ mon.shot = "spent" => events = <<>>

C15_Witness ==
    /\ kind = "socket" /\ op = "wait"
    /\ mon.shot = "level"
    /\ pending = 2 /\ events = <<1>>

\* C16: no operation of a Source or of a Notifier blocks: in every
\* reachable state, also with an empty or a full pipe or eventfd, no call
\* to register, reregister, deregister, handle_event or notify is left
\* waiting for another thread to act.
C16_NoOperationBlocks == blocked = "none"

\* C17: notify may be called from any number of threads, interleaved in any
\* way with the owner's handle_event: the Ping holds exactly the
\* notifications that no handle_event has matched yet, and while it is
\* registered in mode Level and at least one is unmatched, a wait reports
\* the event.
C17_ConcurrentNotify ==
    kind \in {"ping", "pipe", "iocp"} =>
        /\ pending = mon.unmatched
        /\ (op = "wait" /\ Registered /\ RegisteredMode = "Level"
              /\ mon.unmatched > 0) =>
               \E i \in 1..Len(events) : events[i] = RegisteredEvent

\* C18: in every reachable state of a TimerWheel the Notifier of every entry
\* belongs to a live (not dropped) Timer; and a fire_timers that fires the
\* entry of a dropped Timer is harmless: it returns Ok and notifies every
\* other expired timer.
C18_StaleEntriesHarmless ==
    /\ [](\A e \in timers : tm[e.notifier].live)
    /\ [](op = "fire_timers" => (res = Ok /\ ret.notified = ret.expired))

C20_IntervalDeadlines ==
    \A i \in 1..Len(tm) :
        (tm[i].how \in {"interval", "interval_at"}
             /\ tm[i].interval # DurationMax) =>
            LET start == Get(tm[i].start)
                d == tm[i].interval
            IN  /\ tm[i].how = "interval" /\ op = "interval" /\ i = Len(tm)
                       => start = now
                /\ tm[i].deadline = Some(start + (tm[i].bumps + 1) * d)
                /\ tm[i].bumps = 0 =>
                       (fired[i] = 0 =>
                            [deadline |-> start + d, id |-> tm[i].id,
                             notifier |-> i] \in timers)
                /\ \A e \in timers :
                       e.notifier = i =>
                           \E j \in 1..(tm[i].bumps + 1) :
                               e.deadline = start + j * d

C20_Witness ==
    \E i \in 1..Len(tm) :
        /\ tm[i].how = "interval_at" /\ tm[i].start = Some(0)
        /\ tm[i].interval = 1 /\ tm[i].bumps = 1 /\ fired[i] = 1
        /\ op = "handle_wheel"
        /\ [deadline |-> 2, id |-> tm[i].id, notifier |-> i] \in timers

\* C21: a Receiver::reregister that succeeds leaves a fresh receive future
\* in the Receiver and changes neither the channel's queue nor what was
\* sent or received; the recv that follows it, with a value queued, returns
\* the oldest queued value and takes exactly that value out of the queue.
C21_ReregisterRebuilds ==
    /\ [][(op' = "reregister" /\ res' = Ok) =>
              (fut' = "fresh" /\ UNCHANGED <<queue, sent, received, pollret>>)]_vars
    /\ [][(op = "reregister" /\ res = Ok /\ op' = "poll" /\ queue # <<>>) =>
              /\ ~panicked'
              /\ pollret' = Some(ReadyOf(Head(queue)))
              /\ queue' = Tail(queue)
              /\ received' = Append(received, Head(queue))]_vars

C21_Witness ==
    /\ op = "reregister" /\ res = Ok /\ fut = "fresh"
    /\ received = <<1>> /\ queue = <<2>> /\ polls = 1

\* C22: handle_event called on a source on which neither register nor
\* reregister was ever called returns an error.
C22_HandleEventUnregistered ==
    [][(op' = "handle_event" /\ mon.never /\ blocked' = "none")
           => res' = Err]_vars

\* C23: a source is deregistered while an event that wait reported for it
\* is still to be handled; the handle_event made for that event right after
\* the deregister returns Ok and changes neither the interest nor the
\* number of pending notifications of the source.
C23_LateEventAbsorbed ==
    [][(mon.twice \in {"once", "twice"} /\ events # <<>>
            /\ op' = "handle_event" /\ blocked' = "none") =>
           (res' = Ok /\ UNCHANGED <<interest, pending, reg>>)]_vars

\* C24: Socket::handle_event returns Ok, calls no Poller operation (the
\* registration in the Poller and the events it last reported stay as they
\* are) and leaves the recorded Interest and the handle (the bytes waiting
\* in it) unchanged, in every state of the Socket.
C24_SocketHandleEventNoop ==
    [][(kind = "socket" /\ op' = "handle_event") =>
           (res' = Ok /\ UNCHANGED <<interest, reg, pending, events>>)]_vars

C24_Witness ==
    /\ kind = "socket" /\ op = "handle_event" /\ res = Ok
    /\ interest # None /\ reg # None /\ pending = 2 /\ events # <<>>

\* C25: on the eventfd backend the counter of the Ping's eventfd is, in
\* every state, the number of notify calls that returned Ok minus the
\* number of handle_event calls that returned Ok, and is never negative:
\* each notify adds exactly one, each handle_event that returns Ok takes
\* exactly one, and handle_event fails when the counter is 0; a Ping
\* registered Level is reported by wait exactly while the counter is not 0.
C25_EventfdSemaphore ==
    /\ [](kind = "ping" => (pending = mon.unmatched /\ pending >= 0))
    /\ [][kind = "ping" =>
              /\ (op' = "notify" /\ mon' # mon) =>
                     (res' = Ok /\ pending' = pending + 1)
              /\ (op' = "handle_event" /\ pending > 0) =>
                     (res' = Ok /\ pending' = pending - 1)
              /\ (op' = "handle_event" /\ pending = 0) =>
                     (res' = Err /\ pending' = 0)]_vars
    /\ [](kind = "ping" /\ op = "wait" /\ Registered
              /\ RegisteredMode = "Level" =>
                 (events # <<>> <=> pending > 0))

C25_Witness ==
    /\ kind = "ping" /\ op = "handle_event" /\ res = Ok
    /\ pending = 1 /\ mon.unmatched = 1
    /\ Registered /\ RegisteredMode = "Level"

\* C26: on the IOCP backend handle_event takes one from the notified
\* counter (0 stays 0), clears in_port and, when the Ping is registered
\* Oneshot or EdgeOneshot, clears the Interest; with the Interest cleared a
\* notify posts no packet.
C26_IocpHandleEvent ==
    /\ [][(kind = "iocp" /\ op' = "handle_event") =>
              /\ pending' = IF pending > 0 THEN pending - 1 ELSE 0
              /\ in_port' = FALSE
              /\ (interest # None /\ RegisteredMode \in OneshotModes) =>
                     interest' = None]_vars
    /\ [][(kind = "iocp" /\ op' = "notify" /\ interest = None) =>
              UNCHANGED port]_vars

\* C27: on the IOCP backend a notify made after the Poller the Ping is
\* registered with was dropped returns Ok, posts no packet and leaves
\* in_port as it was; a notify on a Ping that holds no Interest returns Ok
\* and posts no packet either.
C27_NotifyWithoutPoller ==
    [][(kind = "iocp" /\ op' = "notify" /\ mon' # mon) =>
           /\ res' = Ok
           /\ (interest # None /\ ~poller_live) => UNCHANGED <<port, in_port>>
           /\ interest = None => UNCHANGED <<port, in_port>>]_vars

C27_Witness ==
    /\ kind = "iocp" /\ op = "notify" /\ res = Ok
    /\ interest # None /\ ~poller_live
    /\ pending = 2 /\ in_port = FALSE /\ port = <<>>

C29_NextDeadline ==
    (op = "fire_timers" /\ res = Ok) =>
        /\ ret.next = None <=> timers = {}
        /\ timers # {} =>
               \E e \in timers :
                   /\ \A f \in timers : e.deadline <= f.deadline
                   /\ Get(ret.next) = e.deadline - now
                   /\ Get(ret.next) >= 0

C29_Witness ==
    /\ op = "fire_timers" /\ res = Ok /\ ret.notified # <<>>
    /\ Cardinality(timers) = 1 /\ ret.next = Some(1)

\* C30: whenever fire_timers calls notify on a Notifier, the wheel holds no
\* entry that the call expires (none whose deadline is before the Instant
\* the call read), the value to return has been computed from the wheel as
\* it is, the notify changes neither, and that value is what the call
\* returns once every notify has succeeded.
C30_NotifyAfterUpdate ==
    /\ [][(Len(fired') = Len(fired) /\ fired' # fired) =>
              /\ fire.pc = "notify"
              /\ \A e \in timers : e.deadline >= fire.now
              /\ fire.next = NextWait(timers, fire.now)
              /\ UNCHANGED timers /\ fire'.next = fire.next]_vars
    /\ [][(fire.pc = "notify" /\ fire'.pc = "idle" /\ res' = Ok) =>
              ret'.next = fire.next]_vars

C30_Witness ==
    /\ op = "fire_notify" /\ fire.pc = "notify"
    /\ fire.notified # <<>> /\ fire.notifiers # <<>>
    /\ timers # {} /\ fire.next # None

\* C31: after any sequence of register, reregister and deregister calls on
\* a Socket, whatever the Poller returned, the Socket holds an Interest if
\* and only if its handle is registered in the Poller.
C31_InterestIffRegistered ==
    kind = "socket" => (interest # None <=> reg # None)

\* C32: after any sequence of timer creations, fire_timers, handle_event
\* and handle_wheel calls the wheel holds at most one entry for each timer
\* id, and a fire_timers call notifies each Timer at most once.
C32_OneEntryPerTimer ==
    /\ \A e \in timers : \A f \in timers : e.id = f.id => e = f
    /\ op = "fire_timers" =>
           \A i \in 1..Len(tm) :
               Cardinality({j \in 1..Len(ret.notified) :
                               ret.notified[j] = i}) <= 1

\* C33 (as stated): the ids of the Timers that a TimerWheel hands out are at
\* least 1 and strictly increasing in the order of creation, last_id is
\* greater than every id in the wheel, and the entries of two Timers are
\* distinct entries.
C33_IdsDistinct ==
    /\ \A i \in 1..Len(tm) : tm[i].id >= 1
    /\ \A i \in 1..Len(tm) : \A j \in 1..Len(tm) :
           i < j => tm[i].id < tm[j].id
    /\ \A e \in timers : e.id < last_id
    /\ \A e \in timers : \A f \in timers :
           e.notifier # f.notifier => e.id # f.id

\* C33 (amended): the ids of the Timers made by interval_at (through at,
\* after, interval or interval_at) are at least 1, strictly increasing in
\* the order of creation and below last_id; the Timers that after makes
\* with Timer::never have id 0, no deadline and no entry in the wheel; so
\* every entry of the wheel carries the id of the Timer it notifies, the
\* entries of two Timers are distinct also when their deadlines are equal,
\* and a fire_timers call notifies the Timer of every entry whose deadline
\* has passed.
C33_WheelIdsDistinct ==
    /\ [](\A i \in 1..Len(tm) :
              IF tm[i].how = "after" /\ tm[i].want = None
              THEN /\ tm[i].id = 0 /\ tm[i].deadline = None
                   /\ \A e \in timers : e.notifier # i
              ELSE /\ tm[i].id >= 1 /\ tm[i].id < last_id
                   /\ \A j \in 1..Len(tm) :
                          (i < j /\ ~(tm[j].how = "after" /\ tm[j].want = None))
                              => tm[i].id < tm[j].id)
    /\ [](\A e \in timers :
              /\ e.id >= 1 /\ e.id < last_id /\ tm[e.notifier].id = e.id
              /\ \A f \in timers : e.notifier # f.notifier => e.id # f.id)
    /\ [][op' = "fire_timers" =>
              \A e \in timers :
                  e.deadline < now =>
                      fired'[e.notifier] > fired[e.notifier]]_vars

C33_Witness ==
    /\ op = "fire_timers" /\ Len(ret.notified) = 2
    /\ Len(tm) = 2 /\ tm[1].want = tm[2].want /\ tm[1].want # None
    /\ tm[1].id = 1 /\ tm[2].id = 2
    /\ fired = <<1, 1>>

\* C34: every entry that a fire_timers call removes from the wheel is
\* notified by that call: also when the notify of another expired entry
\* fails, the Timer of each removed entry whose own Notifier works has one
\* more notification after the call.
C34_RemovedIsNotified ==
    [][op' = "fire_timers" =>
           \A e \in timers \ timers' :
               tm[e.notifier].live =>
                   fired'[e.notifier] > fired[e.notifier]]_vars

======================================================================
